---- MODULE Spec2Model ----
(***************************************************************************)
(* rss_to_ods.py: fetch a paginated WordPress RSS feed, filter its entries *)
(* on a date window and write them to a spreadsheet.                       *)
(*                                                                         *)
(* Strings the program parses (the --from/--to arguments, the published    *)
(* field of an entry) are sequences of one-character strings, so parsing   *)
(* and formatting are computed.  Optional values are <<>> (None) or <<v>>. *)
(***************************************************************************)
EXTENDS Integers, Sequences, FiniteSets, TLC

\* ---------------------------------------------------------------- bounds
\* longest page (number of entries) the feed returns in one response
MaxPageLen == 2
\* largest value given to --max
MaxCap == 2
\* longest entry list given to parse_entries on its own
MaxParseLen == 2

\* ------------------------------------------------------ optional values
None == <<>>
Some(v) == <<v>>
IsNone(o) == o = <<>>
Val(o) == o[1]

\* ------------------------------------------------------------- strings
DigitChars == <<"0", "1", "2", "3", "4", "5", "6", "7", "8", "9">>
Digits == {DigitChars[i] : i \in DOMAIN DigitChars}
DigitVal(c) == (CHOOSE i \in DOMAIN DigitChars : DigitChars[i] = c) - 1
AllDigits(s) == \A i \in DOMAIN s : s[i] \in Digits

RECURSIVE NumVal(_)
NumVal(s) ==
  IF s = <<>> THEN 0
  ELSE 10 * NumVal(SubSeq(s, 1, Len(s) - 1)) + DigitVal(s[Len(s)])

\* the fields of s between occurrences of the character sep
RECURSIVE Split(_, _)
Split(s, sep) ==
  IF \A i \in DOMAIN s : s[i] # sep THEN <<s>>
  ELSE LET i == CHOOSE k \in DOMAIN s :
                   s[k] = sep /\ \A j \in 1..(k - 1) : s[j] # sep
       IN <<SubSeq(s, 1, i - 1)>> \o Split(SubSeq(s, i + 1, Len(s)), sep)

\* zero-padded decimal of n on w digits (strftime %d, %m, %Y)
RECURSIVE Pad(_, _)
Pad(n, w) ==
  IF w = 0 THEN <<>> ELSE Pad(n \div 10, w - 1) \o <<DigitChars[(n % 10) + 1]>>

\* ------------------------------------------------------------ calendar
IsLeap(y) == (y % 4 = 0 /\ y % 100 # 0) \/ y % 400 = 0
DaysInMonth(y, m) ==
  IF m = 2 THEN (IF IsLeap(y) THEN 29 ELSE 28)
  ELSE IF m \in {4, 6, 9, 11} THEN 30 ELSE 31

RECURSIVE DaysBeforeMonth(_, _)
DaysBeforeMonth(y, m) ==
  IF m = 1 THEN 0 ELSE DaysBeforeMonth(y, m - 1) + DaysInMonth(y, m - 1)

\* proleptic Gregorian ordinal of a date (datetime.toordinal)
Ordinal(y, m, d) ==
  (y - 1) * 365 + ((y - 1) \div 4) - ((y - 1) \div 100) + ((y - 1) \div 400)
    + DaysBeforeMonth(y, m) + d

\* a datetime: calendar fields plus the UTC offset in minutes
DateTime(y, m, d, hh, mi, ss, off) ==
  [year |-> y, month |-> m, day |-> d, hour |-> hh, minute |-> mi,
   second |-> ss, utcoffset |-> off]

\* the instant of an aware datetime as <<UTC day ordinal, second of the day>>
Instant(dt) ==
  LET secs == dt.hour * 3600 + dt.minute * 60 + dt.second - dt.utcoffset * 60
  IN <<Ordinal(dt.year, dt.month, dt.day) + (secs \div 86400), secs % 86400>>

\* comparison of aware datetimes (datetime.__lt__, datetime.__gt__)
DtLess(a, b) ==
  LET x == Instant(a)
      y == Instant(b)
  IN x[1] < y[1] \/ (x[1] = y[1] /\ x[2] < y[2])
DtGreater(a, b) == DtLess(b, a)

\* ------------------------------------------------------------ strptime
\* %d : 3[0-1]|[1-2]\d|0[1-9]|[1-9]
MatchDay(f) == Len(f) \in {1, 2} /\ AllDigits(f) /\ NumVal(f) \in 1..31
\* %m : 1[0-2]|0[1-9]|[1-9]
MatchMonth(f) == Len(f) \in {1, 2} /\ AllDigits(f) /\ NumVal(f) \in 1..12
\* %Y : \d\d\d\d
MatchYear(f) == Len(f) = 4 /\ AllDigits(f)
\* %H : 2[0-3]|[0-1]\d|\d
MatchHour(f) == Len(f) \in {1, 2} /\ AllDigits(f) /\ NumVal(f) \in 0..23
\* %M : [0-5]\d|\d
MatchMinute(f) == Len(f) \in {1, 2} /\ AllDigits(f) /\ NumVal(f) \in 0..59
\* %S : 6[0-1]|[0-5]\d|\d
MatchSecond(f) == Len(f) \in {1, 2} /\ AllDigits(f) /\ NumVal(f) \in 0..61
\* %z : [+-]\d\d[0-5]\d
MatchZone(f) ==
  /\ Len(f) = 5
  /\ f[1] \in {"+", "-"}
  /\ AllDigits(SubSeq(f, 2, 5))
  /\ NumVal(SubSeq(f, 4, 5)) \in 0..59

\* the datetime constructor accepts the fields
ValidFields(y, m, d, hh, mi, ss) ==
  /\ y \in 1..9999
  /\ m \in 1..12
  /\ d \in 1..DaysInMonth(y, m)
  /\ hh \in 0..23
  /\ mi \in 0..59
  /\ ss \in 0..59

\* datetime.strptime(date_str, "%d/%m/%Y"): <<>> is ValueError
StrptimeDMY(s) ==
  LET f == Split(s, "/")
  IN IF Len(f) = 3 /\ MatchDay(f[1]) /\ MatchMonth(f[2]) /\ MatchYear(f[3])
          /\ ValidFields(NumVal(f[3]), NumVal(f[2]), NumVal(f[1]), 0, 0, 0)
     THEN Some(DateTime(NumVal(f[3]), NumVal(f[2]), NumVal(f[1]), 0, 0, 0, 0))
     ELSE None

\* datetime.strptime(date_str, "%Y-%m-%d"): <<>> is ValueError
StrptimeYMD(s) ==
  LET f == Split(s, "-")
  IN IF Len(f) = 3 /\ MatchYear(f[1]) /\ MatchMonth(f[2]) /\ MatchDay(f[3])
          /\ ValidFields(NumVal(f[1]), NumVal(f[2]), NumVal(f[3]), 0, 0, 0)
     THEN Some(DateTime(NumVal(f[1]), NumVal(f[2]), NumVal(f[3]), 0, 0, 0, 0))
     ELSE None

WeekdayNames == <<<<"M", "o", "n">>, <<"T", "u", "e">>, <<"W", "e", "d">>, <<"T", "h", "u">>, <<"F", "r", "i">>, <<"S", "a", "t">>, <<"S", "u", "n">>>>
MonthNames == <<<<"J", "a", "n">>, <<"F", "e", "b">>, <<"M", "a", "r">>, <<"A", "p", "r">>, <<"M", "a", "y">>, <<"J", "u", "n">>, <<"J", "u", "l">>, <<"A", "u", "g">>, <<"S", "e", "p">>, <<"O", "c", "t">>, <<"N", "o", "v">>, <<"D", "e", "c">>>>

ZoneMinutes(f) ==
  LET m == NumVal(SubSeq(f, 2, 3)) * 60 + NumVal(SubSeq(f, 4, 5))
  IN IF f[1] = "-" THEN 0 - m ELSE m

\* datetime.strptime(date_str, "%a, %d %b %Y %H:%M:%S %z"): <<>> is
\* ValueError.  Fields are separated by single spaces in the inputs used.
StrptimeRFC(s) ==
  LET t == Split(s, " ")
  IN IF Len(t) # 6 THEN None
     ELSE
       LET hms == Split(t[5], ":")
       IN IF /\ \E i \in DOMAIN WeekdayNames : t[1] = WeekdayNames[i] \o <<",">>
             /\ MatchDay(t[2])
             /\ \E i \in DOMAIN MonthNames : t[3] = MonthNames[i]
             /\ MatchYear(t[4])
             /\ Len(hms) = 3
             /\ MatchHour(hms[1]) /\ MatchMinute(hms[2]) /\ MatchSecond(hms[3])
             /\ MatchZone(t[6])
          THEN
            LET mon == CHOOSE i \in DOMAIN MonthNames : t[3] = MonthNames[i]
            IN IF ValidFields(NumVal(t[4]), mon, NumVal(t[2]),
                              NumVal(hms[1]), NumVal(hms[2]), NumVal(hms[3]))
               THEN Some(DateTime(NumVal(t[4]), mon, NumVal(t[2]), NumVal(hms[1]),
                                  NumVal(hms[2]), NumVal(hms[3]), ZoneMinutes(t[6])))
               ELSE None
          ELSE None

\* dt.strftime("%d/%m/%Y")
StrftimeDMY(dt) ==
  Pad(dt.day, 2) \o <<"/">> \o Pad(dt.month, 2) \o <<"/">> \o Pad(dt.year, 4)

\* ------------------------------------------------------------- helpers
\* format_date: the date as DD/MM/YYYY, or the string itself if unparsable
format_date(date_str) ==
  IF IsNone(StrptimeRFC(date_str)) THEN date_str
  ELSE StrftimeDMY(Val(StrptimeRFC(date_str)))

\* parse_pub_date: the datetime, or None if unparsable
parse_pub_date(date_str) == StrptimeRFC(date_str)

\* parse_user_date: <<>> stands for the ValueError raised at the end
parse_user_date(date_str) ==
  IF ~IsNone(StrptimeDMY(date_str)) THEN StrptimeDMY(date_str)
  ELSE IF ~IsNone(StrptimeYMD(date_str)) THEN StrptimeYMD(date_str)
  ELSE None

\* decimal of a positive integer (str(page))
RECURSIVE Str(_)
Str(n) == IF n < 10 THEN <<DigitChars[n + 1]>>
          ELSE Str(n \div 10) \o <<DigitChars[(n % 10) + 1]>>

\* the keys of a query in order of first occurrence (dict insertion order)
RECURSIVE KeysOf(_)
KeysOf(q) ==
  IF q = <<>> THEN <<>>
  ELSE LET rest == KeysOf(SubSeq(q, 1, Len(q) - 1))
           k == q[Len(q)][1]
       IN IF \E i \in DOMAIN rest : rest[i] = k THEN rest ELSE Append(rest, k)

\* urlencode(params, doseq=True): every value of every key, key by key
RECURSIVE Encode(_, _, _)
Encode(keys, q, page) ==
  IF keys = <<>> THEN <<>>
  ELSE (IF Head(keys) = "paged" THEN <<<<"paged", Str(page)>>>>
        ELSE SelectSeq(q, LAMBDA p : p[1] = Head(keys)))
       \o Encode(Tail(keys), q, page)

\* build_paged_url: a URL is [base, query], query a sequence of <<key, value>>.
\* parse_qs drops the parameters with a blank value and groups the values by
\* key; "paged" is overwritten in place or added last.
build_paged_url(base_url, page) ==
  LET q == SelectSeq(base_url.query, LAMBDA p : p[2] # <<>>)
      keys == KeysOf(q)
      keys2 == IF \E i \in DOMAIN keys : keys[i] = "paged" THEN keys
               ELSE Append(keys, "paged")
  IN [base |-> base_url.base, query |-> Encode(keys2, q, page)]

\* ------------------------------------------------------------ inputs
PubBefore == <<"S", "a", "t", ",", " ", "0", "4", " ", "J", "a", "n", " ", "2", "0", "2", "5", " ", "2", "3", ":", "5", "9", ":", "5", "9", " ", "+", "0", "0", "0", "0">>
PubFromStart == <<"S", "u", "n", ",", " ", "0", "5", " ", "J", "a", "n", " ", "2", "0", "2", "5", " ", "0", "0", ":", "0", "0", ":", "0", "0", " ", "+", "0", "0", "0", "0">>
PubToEnd == <<"W", "e", "d", ",", " ", "0", "8", " ", "J", "a", "n", " ", "2", "0", "2", "5", " ", "2", "3", ":", "5", "9", ":", "5", "9", " ", "+", "0", "0", "0", "0">>
PubAfter == <<"T", "h", "u", ",", " ", "0", "9", " ", "J", "a", "n", " ", "2", "0", "2", "5", " ", "0", "0", ":", "0", "0", ":", "0", "0", " ", "+", "0", "0", "0", "0">>
PubTz == <<"S", "u", "n", ",", " ", "0", "5", " ", "J", "a", "n", " ", "2", "0", "2", "5", " ", "0", "0", ":", "3", "0", ":", "0", "0", " ", "+", "0", "1", "0", "0">>
PubIso == <<"2", "0", "2", "5", "-", "0", "1", "-", "0", "6">>
ArgFr5 == <<"0", "5", "/", "0", "1", "/", "2", "0", "2", "5">>
ArgIso5 == <<"2", "0", "2", "5", "-", "0", "1", "-", "0", "5">>
ArgIso8 == <<"2", "0", "2", "5", "-", "0", "1", "-", "0", "8">>
ArgFr9 == <<"0", "9", "/", "0", "1", "/", "2", "0", "2", "5">>
ArgBadDay == <<"3", "1", "/", "0", "2", "/", "2", "0", "2", "5">>
ArgShortYear == <<"0", "5", "/", "0", "1", "/", "2", "5">>

\* the entries a feed page may carry; a key an entry lacks is absent from
\* its domain (entry.get(key, default))
FeedEntries ==
  { [link |-> "a", published |-> PubBefore],
    [link |-> "a", published |-> PubFromStart],
    [link |-> "b", published |-> PubToEnd],
    [published |-> PubTz] }

Get(entry, key, default) == IF key \in DOMAIN entry THEN entry[key] ELSE default

BoundedSeq(S, n) == UNION {[1..k -> S] : k \in 0..n}

\* what feedparser.parse returns: the bozo flag, the HTTP status when the
\* result has one, the entries
Responses ==
  [bozo : BOOLEAN, status : {None, Some(200), Some(404)},
   entries : BoundedSeq(FeedEntries, MaxPageLen)]

DEFAULT_FEED_URL == [base |-> "https://www.uneiaparjour.fr/feed/", query |-> <<>>]
QueryFeedUrl ==
  [base |-> "https://www.uneiaparjour.fr/",
   query |-> << <<"paged", <<"7">> >>, <<"s", <<>> >>, <<"feed", <<"r", "s", "s", "2">> >> >>]
DELAY_BETWEEN_PAGES == 1

\* the (--from, --to) pairs given on the command line
DateArgs ==
  { <<None, None>>,
    <<Some(ArgFr5), Some(ArgIso8)>>,
    <<Some(ArgFr5), Some(ArgIso5)>>,
    <<Some(ArgFr9), Some(ArgIso8)>>,
    <<Some(ArgBadDay), None>>,
    <<None, Some(ArgShortYear)>>,
    <<Some(PubIso), Some(ArgBadDay)>>,
    <<Some(<<>>), Some(ArgIso5)>> }

ArgsSet ==
  [url : {DEFAULT_FEED_URL, QueryFeedUrl},
   max : {None} \cup {Some(n) : n \in 0..MaxCap},
   no_paginate : BOOLEAN,
   delay : {DELAY_BETWEEN_PAGES},
   dates : DateArgs]

\* ------------------------------------------------------------- state
VARIABLES
  args,          \* the parsed command line
  pc,            \* where the run is: "main", "request", "process", "fetched",
                 \* "parse", "render", "exit"
  date_from,     \* main: parsed --from, None if not given
  date_to,       \* main: parsed --to, None if not given
  page,          \* fetch_all_entries: page index
  all_entries,   \* fetch_all_entries: accumulated entries
  seen_links,    \* fetch_all_entries: links of the accumulated entries
  feed,          \* fetch_all_entries: the page just parsed, None otherwise
  entries,       \* main: what fetch_all_entries returned
  rows,          \* main: what parse_entries returned
  file,          \* the output file: None, or the table written
  exit_status,   \* None while running, then the exit status
  stderr,        \* the error reported, "" if none
  stdout,        \* the last line fetch_all_entries printed about a page parsed
  io             \* the page requests and the sleeps, in order

vars == <<args, pc, date_from, date_to, page, all_entries, seen_links, feed,
          entries, rows, file, exit_status, stderr, stdout, io>>

Init ==
  /\ args \in ArgsSet
  /\ pc = "main"
  /\ date_from = None
  /\ date_to = None
  /\ page = 1
  /\ all_entries = <<>>
  /\ seen_links = {}
  /\ feed = None
  /\ entries = <<>>
  /\ rows = <<>>
  /\ file = None
  /\ exit_status = None
  /\ stderr = ""
  /\ stdout = ""
  /\ io = <<>>

\* sys.exit(1) after a message on stderr, or an uncaught exception
Exit1(msg) ==
  /\ pc' = "exit"
  /\ exit_status' = Some(1)
  /\ stderr' = msg

\* truth value of an optional string argument
Truthy(o) == ~IsNone(o) /\ Val(o) # <<>>

\* parse_user_date(arg) if arg else None
DateOf(arg) == IF Truthy(arg) THEN parse_user_date(Val(arg)) ELSE None

\* main, from the parsing of the dates to the call of fetch_all_entries
ParseDates ==
  /\ pc = "main"
  /\ LET af == args.dates[1]
         at == args.dates[2]
         f == DateOf(af)
         t == DateOf(at)
     IN IF Truthy(af) /\ IsNone(f) THEN
          /\ Exit1("ValueError")
          /\ UNCHANGED <<date_from, date_to>>
        ELSE IF Truthy(at) /\ IsNone(t) THEN
          /\ Exit1("ValueError")
          /\ date_from' = f
          /\ UNCHANGED date_to
        ELSE IF ~IsNone(f) /\ ~IsNone(t) /\ DtGreater(Val(f), Val(t)) THEN
          /\ Exit1("from after to")
          /\ date_from' = f
          /\ date_to' = t
        ELSE
          /\ pc' = "request"
          /\ date_from' = f
          /\ date_to' = t
          /\ UNCHANGED <<exit_status, stderr>>
  /\ UNCHANGED <<args, page, all_entries, seen_links, feed, entries, rows, file,
                 stdout, io>>

\* the URL requested for a page
PagedUrl(url, paginate, pg) ==
  IF paginate /\ pg > 1 THEN build_paged_url(url, pg) ELSE url

\* fetch_all_entries: feedparser.parse(paged_url) at the top of the loop
RequestPage ==
  /\ pc = "request"
  /\ io' = Append(io, [op |-> "fetch", page |-> page,
                       url |-> PagedUrl(args.url, ~args.no_paginate, page)])
  /\ \E r \in Responses : feed' = Some(r)
  /\ pc' = "process"
  /\ UNCHANGED <<args, date_from, date_to, page, all_entries, seen_links,
                 entries, rows, file, exit_status, stderr, stdout>>

\* Accumulate without the test of seen_links
Accumulate_NoSeenCheck(es, all, seen, new_count) ==
  <<all \o es, seen \cup {Get(es[i], "link", "") : i \in DOMAIN es},
    new_count + Len(es)>>

\* Accumulate counting every entry of the page as new
Accumulate_CountsAll(es, all, seen, new_count) ==
  LET fresh == {i \in DOMAIN es :
                  /\ Get(es[i], "link", "") \notin seen
                  /\ \A j \in 1..(i - 1) : Get(es[j], "link", "") # Get(es[i], "link", "")}
      pick[k \in 0..Len(es)] ==
        IF k = 0 THEN <<>>
        ELSE IF k \in fresh THEN Append(pick[k - 1], es[k]) ELSE pick[k - 1]
  IN <<all \o pick[Len(es)], seen \cup {Get(es[i], "link", "") : i \in DOMAIN es},
       new_count + Len(es)>>

\* the loop over feed.entries: <<all_entries, seen_links, new_count>>
RECURSIVE Accumulate(_, _, _, _)
Accumulate(es, all, seen, new_count) ==
  IF es = <<>> THEN <<all, seen, new_count>>
  ELSE LET link == Get(Head(es), "link", "")
       IN IF link \notin seen
          THEN Accumulate(Tail(es), Append(all, Head(es)), seen \cup {link},
                          new_count + 1)
          ELSE Accumulate(Tail(es), all, seen, new_count)

\* the tests that end the loop
ParseFailed(f) == f.bozo /\ f.entries = <<>>
\* FatalPage with a parse failure fatal on every page
FatalPage_Any(pg) == pg >= 1
FatalPage(pg) == pg = 1
PageEmpty(f) == f.entries = <<>>
NotFound(f) == f.status = Some(404)
\* NoNewEntry with the test lost
NoNewEntry_Never(new_count) == new_count < 0
NoNewEntry(new_count) == new_count = 0
LimitReached(max_items, all) ==
  ~IsNone(max_items) /\ Val(max_items) # 0 /\ Len(all) >= Val(max_items)
Truncate(all, max_items) == SubSeq(all, 1, Val(max_items))
\* LastPage with the flag ignored
LastPage_Never(paginate) == FALSE
LastPage(paginate) == ~paginate

\* NextPage skipping an index
NextPage_Skip(pg) == pg + 2
\* page += 1 and time.sleep(delay)
NextPage(pg) == pg + 1
Sleep(delay) == <<[op |-> "sleep", secs |-> delay]>>

\* the break followed by the return of fetch_all_entries
Return(result, msg) ==
  /\ pc' = "fetched"
  /\ entries' = result
  /\ all_entries' = result
  /\ stdout' = msg
  /\ UNCHANGED <<page, exit_status, stderr, io>>

\* fetch_all_entries: the rest of one iteration of the loop, on the page parsed
ProcessPage ==
  /\ pc = "process"
  /\ feed' = None
  /\ LET f == Val(feed)
         acc == Accumulate(f.entries, all_entries, seen_links, 0)
     IN IF ParseFailed(f) THEN
          /\ UNCHANGED seen_links
          /\ IF FatalPage(page)
             THEN /\ Exit1("parsing error")
                  /\ UNCHANGED <<page, all_entries, entries, stdout, io>>
             ELSE Return(all_entries, "page inaccessible")
        ELSE IF PageEmpty(f) THEN
          /\ UNCHANGED seen_links
          /\ Return(all_entries, "page vide")
        ELSE IF NotFound(f) THEN
          /\ UNCHANGED seen_links
          /\ Return(all_entries, "404")
        ELSE IF NoNewEntry(acc[3]) THEN
          /\ seen_links' = acc[2]
          /\ Return(acc[1], "doublons")
        ELSE IF LimitReached(args.max, acc[1]) THEN
          /\ seen_links' = acc[2]
          /\ Return(Truncate(acc[1], args.max), "limite atteinte")
        ELSE IF LastPage(~args.no_paginate) THEN
          /\ seen_links' = acc[2]
          /\ Return(acc[1], "nouveaux articles")
        ELSE
          /\ seen_links' = acc[2]
          /\ all_entries' = acc[1]
          /\ page' = NextPage(page)
          /\ stdout' = "nouveaux articles"
          /\ io' = io \o Sleep(args.delay)
          /\ pc' = "request"
          /\ UNCHANGED <<entries, exit_status, stderr>>
  /\ UNCHANGED <<args, date_from, date_to, rows, file>>

\* main: the test of the fetched entries
CheckEntries ==
  /\ pc = "fetched"
  /\ IF entries = <<>>
     THEN Exit1("no article")
     ELSE pc' = "parse" /\ UNCHANGED <<exit_status, stderr>>
  /\ UNCHANGED <<args, date_from, date_to, page, all_entries, seen_links, feed,
                 entries, rows, file, stdout, io>>

\* date_to.replace(hour=23, minute=59, second=59)
EndOfDay(dt) == [dt EXCEPT !.hour = 23, !.minute = 59, !.second = 59]

\* Skipped with the upper bound at 00:00:00 of the "to" day
Skipped_ToAtMidnight(entry, from, to) ==
  LET pub == parse_pub_date(Get(entry, "published", <<>>))
  IN /\ ~IsNone(from) \/ ~IsNone(to)
     /\ ~IsNone(pub)
     /\ \/ ~IsNone(from) /\ DtLess(Val(pub), Val(from))
        \/ ~IsNone(to) /\ DtGreater(Val(pub), Val(to))

\* parse_entries: the date test of one entry
Skipped(entry, from, to) ==
  LET pub == parse_pub_date(Get(entry, "published", <<>>))
  IN /\ ~IsNone(from) \/ ~IsNone(to)
     /\ ~IsNone(pub)
     /\ \/ ~IsNone(from) /\ DtLess(Val(pub), Val(from))
        \/ ~IsNone(to) /\ DtGreater(Val(pub), EndOfDay(Val(to)))

\* parse_entries: the row of an entry (the fields the date filter and the
\* order decide; title, description and categories are copied)
RowOf(entry) ==
  [url |-> Get(entry, "link", ""),
   date |-> format_date(Get(entry, "published", <<>>))]

RECURSIVE parse_entries(_, _, _)
parse_entries(es, from, to) ==
  IF es = <<>> THEN <<>>
  ELSE (IF Skipped(Head(es), from, to) THEN <<>> ELSE <<RowOf(Head(es))>>)
       \o parse_entries(Tail(es), from, to)

\* main: rows = parse_entries(entries, date_from, date_to)
ParseEntries ==
  /\ pc = "parse"
  /\ rows' = parse_entries(entries, date_from, date_to)
  /\ pc' = "render"
  /\ UNCHANGED <<args, date_from, date_to, page, all_entries, seen_links, feed,
                 entries, file, exit_status, stderr, stdout, io>>

\* create_ods: the table "Articles", a header row then one row per article
create_ods(rs) ==
  [name |-> "Articles",
   header |-> <<"URL sur uneiaparjour.fr", "Date de publication">>,
   data |-> rs]

\* main: create_ods(rows, args.output), then the end of the process
CreateOds ==
  /\ pc = "render"
  /\ file' = Some(create_ods(rows))
  /\ pc' = "exit"
  /\ exit_status' = Some(0)
  /\ UNCHANGED <<args, date_from, date_to, page, all_entries, seen_links, feed,
                 entries, rows, stderr, stdout, io>>

Next ==
  \/ ParseDates
  \/ RequestPage
  \/ ProcessPage
  \/ CheckEntries
  \/ ParseEntries
  \/ CreateOds

Spec == Init /\ [][Next]_vars

\* ------------------------------------------- parse_entries on its own
\* the entries given to parse_entries: every kind of publication date
ParseInputs ==
  { [link |-> "a", published |-> PubBefore],
    [link |-> "b", published |-> PubFromStart],
    [link |-> "c", published |-> PubToEnd],
    [link |-> "d", published |-> PubAfter],
    [published |-> PubTz],
    [link |-> "f", published |-> PubIso],
    [link |-> "g"] }

\* the windows given to parse_entries
ParseWindows ==
  { <<None, None>>,
    <<Some(ArgFr5), None>>,
    <<None, Some(ArgIso8)>>,
    <<None, Some(ArgIso5)>>,
    <<Some(ArgFr5), Some(ArgIso8)>>,
    <<Some(ArgFr5), Some(ArgIso5)>> }

\* the state of main at the call of parse_entries when the only page
\* fetched (--no-paginate) carried the entries es, all of different links
InitParse ==
  /\ args \in [url : {DEFAULT_FEED_URL}, max : {None}, no_paginate : {TRUE},
               delay : {DELAY_BETWEEN_PAGES}, dates : ParseWindows]
  /\ pc = "parse"
  /\ date_from = DateOf(args.dates[1])
  /\ date_to = DateOf(args.dates[2])
  /\ page = 1
  /\ \E es \in BoundedSeq(ParseInputs, MaxParseLen) :
       /\ es # <<>>
       /\ \A i, j \in DOMAIN es :
            i # j => Get(es[i], "link", "") # Get(es[j], "link", "")
       /\ all_entries = es
       /\ entries = es
       /\ seen_links = {Get(es[i], "link", "") : i \in DOMAIN es}
  /\ feed = None
  /\ rows = <<>>
  /\ file = None
  /\ exit_status = None
  /\ stderr = ""
  /\ stdout = "nouveaux articles"
  /\ io = <<[op |-> "fetch", page |-> 1, url |-> args.url]>>

NextParse == ParseEntries \/ CreateOds

SpecParse == InitParse /\ [][NextParse]_vars

\* ------------------------------------------------------------- claims
LinkOf(e) == Get(e, "link", "")
LinksOf(es) == {LinkOf(es[i]) : i \in DOMAIN es}
NoDuplicateLink(es) == \A i, j \in DOMAIN es : i # j => LinkOf(es[i]) # LinkOf(es[j])
IsPrefix(s, t) == Len(s) <= Len(t) /\ SubSeq(t, 1, Len(s)) = s
Fetches == SelectSeq(io, LAMBDA ev : ev.op = "fetch")
Returned == pc \in {"fetched", "parse", "render"} \/ (pc = "exit" /\ entries # <<>>)

\* C1: when the fetcher returned at least one entry and no row survives
\* parse_entries, the process exits with a non-zero status and writes no file.
C1_EmptyResultAborts ==
  (pc = "exit" /\ entries # <<>> /\ parse_entries(entries, date_from, date_to) = <<>>)
    => (exit_status = Some(1) /\ file = None)

\* the entries of a page whose link is neither in seen nor carried by an
\* earlier entry of the page, in the order of the page
C2_FirstSeen(es, seen) ==
  LET keep == {i \in DOMAIN es :
                 /\ LinkOf(es[i]) \notin seen
                 /\ \A j \in 1..(i - 1) : LinkOf(es[j]) # LinkOf(es[i])}
      sub[k \in 0..Len(es)] ==
        IF k = 0 THEN <<>>
        ELSE IF k \in keep THEN Append(sub[k - 1], es[k]) ELSE sub[k - 1]
  IN sub[Len(es)]

\* C2: at every step of fetch_all_entries the accumulated list and the list
\* returned hold no two entries of the same link (an entry with no link has
\* the link ""), the entries accumulated stay in place, and what a page adds
\* is, in the order of the page, first occurrences of links not seen before.
C2_NoDuplicateFirstSeen ==
  [][/\ NoDuplicateLink(all_entries')
     /\ NoDuplicateLink(entries')
     /\ IsPrefix(all_entries, all_entries')
     /\ pc = "process" =>
          IsPrefix(all_entries',
                   all_entries \o C2_FirstSeen(Val(feed).entries, LinksOf(all_entries)))
     /\ pc' = "fetched" => entries' = all_entries']_vars

\* a second page repeats a link of the first page twice and carries a new one
C2_Witness ==
  /\ pc = "process"
  /\ page = 2
  /\ Len(all_entries) = 2
  /\ "" \in LinksOf(all_entries)
  /\ Len(Val(feed).entries) = 2
  /\ LinkOf(Val(feed).entries[1]) \in LinksOf(all_entries)
  /\ LinkOf(Val(feed).entries[2]) \notin LinksOf(all_entries)

\* C3: with --max M, M >= 0, fetch_all_entries returns at most M entries, and
\* with no date filter the table written has at most M data rows.
C3_AtMostMax ==
  (Returned /\ ~IsNone(args.max))
    => /\ Len(entries) <= Val(args.max)
       /\ (~IsNone(file) /\ IsNone(date_from) /\ IsNone(date_to))
            => Len(Val(file).data) <= Val(args.max)

\* seconds from 00:00:00 UTC of the day of the window bound day to the
\* instant of the publication date pub
C4_SecondsAfter(pub, day) ==
  (Ordinal(pub.year, pub.month, pub.day) - Ordinal(day.year, day.month, day.day)) * 86400
    + pub.hour * 3600 + pub.minute * 60 + pub.second - pub.utcoffset * 60

C4_Parsable(e) == ~IsNone(parse_pub_date(Get(e, "published", <<>>)))
C4_Pub(e) == Val(parse_pub_date(Get(e, "published", <<>>)))

\* the entry is dated before 00:00:00 of the "from" day or after 23:59:59
\* of the "to" day
C4_OutOfWindow(e) ==
  /\ C4_Parsable(e)
  /\ \/ ~IsNone(date_from) /\ C4_SecondsAfter(C4_Pub(e), Val(date_from)) < 0
     \/ ~IsNone(date_to) /\ C4_SecondsAfter(C4_Pub(e), Val(date_to)) > 86399

C4_Rows(es) == [i \in DOMAIN es |-> RowOf(es[i])]

\* C4: the rows of parse_entries are, in order, the rows of exactly the
\* entries that are not (date parsable and out of the window); an entry whose
\* date is unparsable or absent is kept, and so is an entry dated (in UTC, as
\* the window is) on the "from" day or on the "to" day within the window.
C4_DateFilter ==
  pc \in {"render", "exit"} =>
    /\ rows = C4_Rows(SelectSeq(entries, LAMBDA e : ~C4_OutOfWindow(e)))
    /\ \A i \in DOMAIN entries :
         ~C4_Parsable(entries[i]) => \E k \in DOMAIN rows : rows[k] = RowOf(entries[i])
    /\ \A i \in DOMAIN entries :
         (/\ C4_Parsable(entries[i])
          /\ \/ /\ ~IsNone(date_from)
                /\ C4_SecondsAfter(C4_Pub(entries[i]), Val(date_from)) \in 0..86399
                /\ IsNone(date_to) \/ ~DtGreater(Val(date_from), Val(date_to))
             \/ /\ ~IsNone(date_to)
                /\ C4_SecondsAfter(C4_Pub(entries[i]), Val(date_to)) \in 0..86399
                /\ IsNone(date_from) \/ ~DtGreater(Val(date_from), Val(date_to)))
           => \E k \in DOMAIN rows : rows[k] = RowOf(entries[i])

\* the window 05/01/2025..2025-01-08 keeps the entry of 23:59:59 on the 8th
\* and drops the entry of 00:00:00 on the 9th
C4_Witness ==
  /\ pc = "render"
  /\ ~IsNone(date_from)
  /\ ~IsNone(date_to)
  /\ Len(entries) = 2
  /\ Get(entries[1], "published", <<>>) = PubToEnd
  /\ Get(entries[2], "published", <<>>) = PubAfter
  /\ rows = <<RowOf(entries[1])>>

\* the page parsed is not empty and carries only links already accumulated
C5_AllSeen ==
  /\ pc = "process"
  /\ ~args.no_paginate
  /\ Val(feed).entries # <<>>
  /\ LinksOf(Val(feed).entries) \subseteq LinksOf(all_entries)

\* C5: with pagination enabled, a page that carries only links seen on
\* earlier pages leaves the accumulated list unchanged and makes the fetcher
\* return it; once the fetcher has returned no page is requested.
C5_DuplicatePageStops ==
  [][/\ C5_AllSeen =>
          /\ all_entries' = all_entries
          /\ pc' = "fetched"
          /\ entries' = all_entries
          /\ exit_status' = None
          /\ io' = io
     /\ Returned => (io' = io /\ pc' \notin {"request", "process"})]_vars

\* page 2 repeated links of page 1 and the fetcher returned the two entries
\* of page 1
C5_Witness ==
  /\ pc = "fetched"
  /\ ~args.no_paginate
  /\ stdout = "doublons"
  /\ page = 2
  /\ Len(entries) = 2
  /\ Len(Fetches) = 2

\* C6: in fetch_all_entries a parse failure with no entry on page 1 ends the
\* process with status 1 and no file; a parse failure with no entry on a later
\* page, an empty page, a 404 and a page of known links return the entries
\* accumulated; the cap and --no-paginate return them with those of the page;
\* no path drops an entry accumulated from an earlier page.
C6_OnlyFirstPageFatal ==
  [][pc = "process" =>
       LET f == Val(feed)
       IN IF f.bozo /\ f.entries = <<>> /\ page = 1
          THEN pc' = "exit" /\ exit_status' = Some(1) /\ file' = None
          ELSE /\ pc' \in {"fetched", "request"}
               /\ exit_status' = None
               /\ IsPrefix(all_entries, all_entries')
               /\ pc' = "fetched" => (entries' = all_entries' /\ IsPrefix(all_entries, entries'))
               /\ (\/ f.entries = <<>>
                   \/ f.status = Some(404)
                   \/ LinksOf(f.entries) \subseteq LinksOf(all_entries))
                    => (pc' = "fetched" /\ entries' = all_entries)
               /\ (~IsNone(args.max) /\ Val(args.max) > 0
                     /\ Len(all_entries') >= Val(args.max)) => pc' = "fetched"
               /\ args.no_paginate => pc' = "fetched"]_vars

\* page 2 failed to parse after page 1 gave entries, and they were returned
C6_Witness ==
  /\ pc = "fetched"
  /\ stdout = "page inaccessible"
  /\ page = 2
  /\ entries # <<>>
  /\ exit_status = None

\* the argument is given and is in neither format
C7_BadFormat(arg) == ~IsNone(arg) /\ IsNone(parse_user_date(Val(arg)))

\* C7: when --from or --to is in neither format, or "from" is later than "to",
\* the process ends with a non-zero status, requests no page and writes no file.
C7_BadDateAborts ==
  (/\ pc # "main"
   /\ \/ C7_BadFormat(args.dates[1])
      \/ C7_BadFormat(args.dates[2])
      \/ /\ ~IsNone(date_from) /\ ~IsNone(date_to)
         /\ DtGreater(Val(date_from), Val(date_to)))
    => (io = <<>> /\ file = None /\ (pc = "exit" => exit_status = Some(1)))

\* C8: with --no-paginate the only request of the run is that of page 1, made
\* on the base URL as given, whatever the page returns.
C8_SinglePage ==
  args.no_paginate =>
    /\ Len(io) <= 1
    /\ \A i \in DOMAIN io : io[i] = [op |-> "fetch", page |-> 1, url |-> args.url]
    /\ (pc \in {"process", "fetched", "parse", "render"}
          \/ (pc = "exit" /\ stderr \notin {"ValueError", "from after to"}))
         => Len(io) = 1

\* --no-paginate, no cap reached, and page 1 gave two new entries
C8_Witness ==
  /\ args.no_paginate
  /\ args.max = None
  /\ pc = "fetched"
  /\ Len(entries) = 2
  /\ Len(io) = 1

\* C9: the fetch loop stops after at most one more page than there are
\* distinct links (the link "" of the entries with none counted): a page
\* that does not end the loop adds a link to those seen and moves to the next
\* index, the links seen are links of the feed, and the pages fetched never
\* exceed the links seen by more than one.
C9_BoundedFetches ==
  [][/\ (pc = "process" /\ pc' = "request") =>
          /\ Cardinality(seen_links') > Cardinality(seen_links)
          /\ page' = page + 1
     /\ pc' = "request" => Len(Fetches') <= Cardinality(seen_links')
     /\ seen_links' \subseteq {LinkOf(e) : e \in FeedEntries}
     /\ Len(Fetches') <= Cardinality(seen_links') + 1
     /\ Len(Fetches') <= Cardinality({LinkOf(e) : e \in FeedEntries}) + 1]_vars

\* every link of the feed was accumulated one page at a time and one more
\* page was fetched
C9_Witness ==
  /\ pc = "fetched"
  /\ seen_links = {LinkOf(e) : e \in FeedEntries}
  /\ Len(Fetches) = Cardinality(seen_links) + 1

\* C10: the requests are those of pages 1, 2, 3, ... in order, one sleep of
\* the configured delay lies between two consecutive requests, and the last
\* request is followed by no sleep.
C10_SequentialPages ==
  /\ \A i \in DOMAIN io :
       IF i % 2 = 1
       THEN io[i].op = "fetch" /\ io[i].page = (i + 1) \div 2
       ELSE io[i] = [op |-> "sleep", secs |-> args.delay]
  /\ pc = "request" => (Len(io) % 2 = 0 /\ page = (Len(io) \div 2) + 1)
  /\ pc = "process" => (Len(io) % 2 = 1 /\ page = (Len(io) + 1) \div 2)
  /\ Returned => Len(io) % 2 = 1
  /\ pc = "exit" => (io = <<>> \/ Len(io) % 2 = 1)

\* three pages were fetched, with two sleeps between them
C10_Witness ==
  /\ pc = "fetched"
  /\ Len(io) = 5
  /\ Len(Fetches) = 3

====
